---- MODULE Spec2Model ----
(***************************************************************************)
(* Model of make-async-stream: a push-style producer (an async closure     *)
(* holding a Sender) adapted to a pull-style Stream through a thread-local *)
(* single-slot rendezvous (src/src/lib.rs).                                *)
(*                                                                         *)
(* The thread's call stack is modelled explicitly: every in-progress       *)
(* poll_next is a frame that owns its `dst` slot and its Enter guard.      *)
(* poll_next is re-entrant (a producer may pull another stream while it is *)
(* being polled), so one call is modelled by its entry, the statements the *)
(* producer executes inside generator.poll, and its return.                *)
(* Producer closures are inputs: each statement they execute is chosen     *)
(* nondeterministically, and history variables log what they did.          *)
(***************************************************************************)
EXTENDS Integers, Sequences, FiniteSets, TLC

\* ---- bounds ----
MaxSends  == 2   \* send operations a producer creates
MaxYields == 1   \* non-send suspension points a producer uses
MaxPulls  == 4   \* pulls made on one stream
MaxPanics == 1   \* panics that escape to the top level

Streams == {1, 2}          \* stream 1's producer may pull stream 2
Values  == {1, 2}          \* payloads sent and failure values returned
Kinds   == {"plain", "try"} \* make_stream / make_try_stream

\* ---- values, items and pull results (uniform triples <<tag, origin, payload>>) ----
None       == <<"None", 0, 0>>
Val(s, v)  == <<"T", s, v>>       \* item of a make_stream stream
Ok(s, v)   == <<"Ok", s, v>>      \* Ok(value) of a make_try_stream stream
Err(s, e)  == <<"Err", s, e>>     \* Err(err) of a make_try_stream stream
End        == <<"End", 0, 0>>     \* Poll::Ready(None)
Pending    == <<"Pending", 0, 0>> \* Poll::Pending
Panicked   == <<"Panic", 0, 0>>   \* the call unwound
IsItem(r)  == r[1] \in {"T", "Ok", "Err"}
NULL       == 0                   \* ptr::null_mut()
Unit       == <<"Unit", 0, 0>>

VARIABLES
  STORE,     \* thread-local slot pointer: NULL or the index of the frame owning the slot
  stack,     \* in-progress poll_next calls, innermost last
  kind,      \* kind[s]: which constructor built stream s
  gen,       \* gen[s]: the suspended producer computation (AsyncStream.generator)
  done,      \* done[s]: AsyncStream.done
  dropped,   \* dropped[s]: the AsyncStream has been dropped
  detached,  \* armed Send futures moved out of their producer
  unwinding, \* a panic is propagating up the call stack
  panics,    \* panics that reached the top level
  nullpolls, \* history: armed sends resumed while no slot was installed
  sent,      \* history: values the closure of s passed to send, in order
  ret,       \* history: what the closure of s returned (None while it has not)
  out,       \* history: the result of every pull on s, in order
  resumed,   \* history: number of times generator.poll of s returned or unwound
  entered,   \* history: number of slots installed for s (pulls made while active)
  nyield,    \* history: non-send suspensions of s
  allow      \* allow[s]: the statement kinds the closure of s is written with

vars == <<STORE, stack, kind, gen, done, dropped, detached, unwinding, panics,
          nullpolls, sent, ret, out, resumed, entered, nyield, allow>>
hist == <<nullpolls, sent, ret, out, resumed, entered, nyield, allow>>

\* ---- helpers ----
Top        == stack[Len(stack)]
Pop(stk)   == SubSeq(stk, 1, Len(stk) - 1)
Running(s) == /\ stack # <<>>
              /\ ~unwinding
              /\ Top.s = s
              /\ Top.phase = "polling"
Log(h, s, x) == [h EXCEPT ![s] = Append(@, x)]
Inc(h, s)    == [h EXCEPT ![s] = @ + 1]
Wrap(s, v)   == IF kind[s] = "plain" THEN Val(s, v) ELSE Ok(s, v)
WithSt(g, st) == [g EXCEPT !.st = st]

\* A fresh generator: the async block has not been polled yet.
NewGen == [st |-> "run", futs |-> <<>>, final |-> FALSE]

\* Send::poll that skips the deposit when no slot is installed instead of
\* panicking (if let Some(..) in place of expect).
SendPollSkipsNull(value, ptr, stk) ==
  IF value = None
    THEN [value |-> value, stk |-> stk, res |-> "ready"]
  ELSE IF ptr \notin 1..Len(stk)
    THEN [value |-> value, stk |-> stk, res |-> "pending"]
  ELSE IF stk[ptr].dst = None
    THEN [value |-> None, stk |-> [stk EXCEPT ![ptr].dst = value], res |-> "pending"]
  ELSE [value |-> value, stk |-> stk, res |-> "pending"]

\* Send::poll that deposits whatever the slot holds.
SendPollOverwrites(value, ptr, stk) ==
  IF value = None
    THEN [value |-> value, stk |-> stk, res |-> "ready"]
  ELSE IF ptr \notin 1..Len(stk)
    THEN [value |-> value, stk |-> stk, res |-> "panic"]
  ELSE [value |-> None, stk |-> [stk EXCEPT ![ptr].dst = value], res |-> "pending"]

\* Send::poll that reports Ready as soon as it has deposited.
SendPollNoSuspend(value, ptr, stk) ==
  IF value = None
    THEN [value |-> value, stk |-> stk, res |-> "ready"]
  ELSE IF ptr \notin 1..Len(stk)
    THEN [value |-> value, stk |-> stk, res |-> "panic"]
  ELSE IF stk[ptr].dst = None
    THEN [value |-> None, stk |-> [stk EXCEPT ![ptr].dst = value], res |-> "ready"]
  ELSE [value |-> value, stk |-> stk, res |-> "pending"]

\* Send::poll that deposits a copy and keeps its value (no take()).
SendPollKeeps(value, ptr, stk) ==
  IF value = None
    THEN [value |-> value, stk |-> stk, res |-> "ready"]
  ELSE IF ptr \notin 1..Len(stk)
    THEN [value |-> value, stk |-> stk, res |-> "panic"]
  ELSE IF stk[ptr].dst = None
    THEN [value |-> value, stk |-> [stk EXCEPT ![ptr].dst = value], res |-> "pending"]
  ELSE [value |-> value, stk |-> stk, res |-> "pending"]

\* Send::poll on a Send whose field `value` is `value`, with the thread-local
\* pointer `ptr` and the call stack `stk` that owns the slots.
SendPoll(value, ptr, stk) ==
  IF value = None
    THEN [value |-> value, stk |-> stk, res |-> "ready"]
  ELSE IF ptr \notin 1..Len(stk)
    THEN [value |-> value, stk |-> stk, res |-> "panic"]
  ELSE IF stk[ptr].dst = None
    THEN [value |-> None, stk |-> [stk EXCEPT ![ptr].dst = value], res |-> "pending"]
  ELSE [value |-> value, stk |-> stk, res |-> "pending"]

\* One poll of the futures the producer is awaiting (a single send, or two
\* joined sends), in order.  The await is ready when every one of them is.
RECURSIVE PollFrom(_, _, _, _, _)
PollFrom(futs, i, ptr, stk, ready) ==
  IF i > Len(futs)
    THEN [futs |-> futs, stk |-> stk, res |-> IF ready THEN "ready" ELSE "pending"]
  ELSE LET r == SendPoll(futs[i], ptr, stk)
       IN IF r.res = "panic"
            THEN [futs |-> futs, stk |-> stk, res |-> "panic"]
            ELSE PollFrom([futs EXCEPT ![i] = r.value], i + 1, ptr, r.stk,
                          ready /\ r.res = "ready")

PollGroup(futs, ptr, stk) == PollFrom(futs, 1, ptr, stk, TRUE)

\* Receiver::enter: save the pointer, install the new slot.
\* An enter that does not save the pointer it replaces.
EnterForgets(s, ptr) ==
  [s |-> s, dst |-> None, prev |-> NULL, before |-> ptr, phase |-> "polling"]

\* The frame's `before` is history: the pointer seen when the pull began.
Enter(s, ptr) ==
  [s |-> s, dst |-> None, prev |-> ptr, before |-> ptr, phase |-> "polling"]

\* A guard that clears the pointer instead of restoring the saved one.
RestoreClears(frame) == NULL

\* Drop for Enter: the pointer the guard restores.
Restore(frame) == frame.prev

\* A poll_next that reports end-of-sequence whenever the slot is empty.
PollResultNeverPending(frame) ==
  IF frame.dst # None THEN frame.dst ELSE End

\* A poll_next that looks at the done flag before the slot.
PollResultDoneFirst(frame) ==
  IF frame.phase = "ready" THEN End
  ELSE IF frame.dst # None THEN frame.dst
  ELSE Pending

\* A done flag no pull sets.
IsReadyNever(phase) == FALSE

\* A done flag set by every pull.
IsReadyAlways(phase) == TRUE

\* AsyncStream::poll_next after generator.poll returned `phase`:
\* the new done flag and the value returned.
IsReady(phase) == phase = "ready"
PollResult(frame) ==
  IF frame.dst # None THEN frame.dst
  ELSE IF IsReady(frame.phase) THEN End
  ELSE Pending

\* A size hint that ignores the flag.
SizeHintUnknown(s) == <<0, -1>>

\* AsyncStream::size_hint
SizeHint(s) == IF done[s] THEN <<0, 0>> ELSE <<0, -1>>   \* -1 stands for None

\* FusedStream::is_terminated
IsTerminated(s) == done[s]

\* The closures the streams are built from, by the statements they are written
\* with (every closure may return) and the constructor used:
\* <<stream 1, stream 2>>.  Stream 2 exists where stream 1's closure pulls it.
Scenario(a1, a2, k1, k2) == [allow |-> <<a1, a2>>, kind |-> <<k1, k2>>]
Scenarios ==
  { Scenario({"send"}, {}, k, "plain") : k \in Kinds }
  \cup { Scenario({"send", "yield"}, {}, k, "plain") : k \in Kinds }
  \cup { Scenario({"send", "fire", "join"}, {}, k, "plain") : k \in Kinds }
  \cup { Scenario({"send", "join"}, {}, k, "plain") : k \in Kinds }
  \cup { Scenario({"send", "pull"}, {"send"}, k, k) : k \in Kinds }
  \cup { Scenario({"send", "pull", "yield"}, {"send", "yield"}, "plain", "plain"),
         Scenario({"send", "pull", "panic"}, {"send", "panic"}, "plain", "plain"),
         Scenario({"detach", "pull"}, {}, "plain", "plain") }

Init ==
  /\ STORE = NULL
  /\ stack = <<>>
  /\ \E sc \in Scenarios : allow = sc.allow /\ kind = sc.kind
  /\ gen = [s \in Streams |-> NewGen]
  /\ done = [s \in Streams |-> FALSE]
  /\ dropped = [s \in Streams |-> FALSE]
  /\ detached = {}
  /\ unwinding = FALSE
  /\ panics = 0
  /\ nullpolls = 0
  /\ sent = [s \in Streams |-> <<>>]
  /\ ret = [s \in Streams |-> None]
  /\ out = [s \in Streams |-> <<>>]
  /\ resumed = [s \in Streams |-> 0]
  /\ entered = [s \in Streams |-> 0]
  /\ nyield = [s \in Streams |-> 0]

\* ---- poll_next: entry ----
\* Who may call poll_next on s: the consumer (caller 0) on stream 1 from the top
\* level, or the running producer of stream 1 (caller 1) on stream 2, which it owns.
CanCall(c, s) ==
  \/ c = 0 /\ s = 1 /\ stack = <<>> /\ ~unwinding
  \/ c = 1 /\ s = 2 /\ Running(1) /\ gen[1].st \in {"run", "pull"} /\ "pull" \in allow[1]

\* How long the consumer is followed. A producer that pulls no other stream
\* is bounded by MaxSends and MaxYields alone: its stream is pulled once per
\* send, once per other suspension, once for the failure item of a try stream
\* and once for the end of the sequence. Nested pulls are cut at MaxPulls.
Unnested == \A s \in Streams : "pull" \notin allow[s]
PullCap  == IF Unnested THEN MaxSends + MaxYields + 2 ELSE MaxPulls

\* poll_next without the early return on done: the slot is installed and the
\* generator polled whatever the flag says.
PullTerminatedPolls(c, s) ==
  /\ CanCall(c, s)
  /\ ~dropped[s]
  /\ Len(out[s]) < PullCap
  /\ done[s]
  /\ stack' = Append(stack, [s |-> s, dst |-> None, prev |-> STORE, before |-> STORE, phase |-> "polling"])
  /\ STORE' = Len(stack) + 1
  /\ entered' = Inc(entered, s)
  /\ gen' = IF c = 0 THEN gen ELSE [gen EXCEPT ![c] = WithSt(@, "pull")]
  /\ UNCHANGED <<nullpolls, kind, done, dropped, detached, unwinding, panics,
                 sent, ret, out, resumed, nyield, allow>>

\* poll_next on a terminated stream: Poll::Ready(None), nothing else.
PullTerminated(c, s) ==
  /\ CanCall(c, s)
  /\ ~dropped[s]
  /\ Len(out[s]) < PullCap
  /\ done[s]
  /\ out' = Log(out, s, End)
  /\ gen' = IF c = 0 THEN gen ELSE [gen EXCEPT ![c] = WithSt(@, "run")]
  /\ UNCHANGED <<nullpolls, STORE, stack, kind, done, dropped, detached, unwinding, panics,
                 sent, ret, resumed, entered, nyield, allow>>

\* poll_next on an active stream, up to the call of generator.poll:
\* a fresh empty slot is installed.
PullEnter(c, s) ==
  /\ CanCall(c, s)
  /\ ~dropped[s]
  /\ Len(out[s]) < PullCap
  /\ ~done[s]
  /\ stack' = Append(stack, Enter(s, STORE))
  /\ STORE' = Len(stack) + 1
  /\ entered' = Inc(entered, s)
  /\ gen' = IF c = 0 THEN gen ELSE [gen EXCEPT ![c] = WithSt(@, "pull")]
  /\ UNCHANGED <<nullpolls, kind, done, dropped, detached, unwinding, panics,
                 sent, ret, out, resumed, nyield, allow>>

\* ---- generator.poll: the producer runs ----
\* The effect of polling the awaited sends `futs` of stream s; `final` tells
\* the await is the synthetic send of make_try_stream.
AwaitStep(s, futs, final) ==
  LET r == PollGroup(futs, STORE, stack) IN
  /\ resumed' = IF r.res = "ready" /\ ~final THEN resumed ELSE Inc(resumed, s)
  /\ CASE r.res = "panic" ->
            /\ gen' = [gen EXCEPT ![s] = [st |-> "panicked", futs |-> futs, final |-> final]]
            /\ unwinding' = TRUE
            /\ stack' = stack
       [] r.res = "pending" ->
            /\ gen' = [gen EXCEPT ![s] = [st |-> "await", futs |-> r.futs, final |-> final]]
            /\ stack' = [r.stk EXCEPT ![Len(stack)].phase = "pending"]
            /\ unwinding' = unwinding
       [] r.res = "ready" /\ final ->
            /\ gen' = [gen EXCEPT ![s] = [st |-> "finished", futs |-> <<>>, final |-> FALSE]]
            /\ stack' = [r.stk EXCEPT ![Len(stack)].phase = "ready"]
            /\ unwinding' = unwinding
       [] r.res = "ready" /\ ~final ->
            /\ gen' = [gen EXCEPT ![s] = [st |-> "run", futs |-> <<>>, final |-> FALSE]]
            /\ stack' = r.stk
            /\ unwinding' = unwinding

\* The producer is resumed at the send(s) it awaits.
ResumeAwait(s) ==
  /\ Running(s)
  /\ gen[s].st = "await"
  /\ AwaitStep(s, gen[s].futs, gen[s].final)
  /\ UNCHANGED <<nullpolls, STORE, kind, done, dropped, detached, panics,
                 sent, ret, out, entered, nyield, allow>>

\* The producer is resumed at a non-send suspension point, which is now ready.
ResumeYield(s) ==
  /\ Running(s)
  /\ gen[s].st = "yield"
  /\ gen' = [gen EXCEPT ![s] = WithSt(@, "run")]
  /\ UNCHANGED <<STORE, stack, kind, done, dropped, detached, unwinding, panics, hist>>

\* tx.send(v).await
StmtSend(s, v) ==
  /\ Running(s)
  /\ gen[s].st = "run"
  /\ Len(sent[s]) < MaxSends
  /\ sent' = Log(sent, s, Wrap(s, v))
  /\ "send" \in allow[s]
  /\ AwaitStep(s, <<Wrap(s, v)>>, FALSE)
  /\ UNCHANGED <<nullpolls, STORE, kind, done, dropped, detached, panics, ret, out, entered, nyield, allow>>

\* An await of something other than a send: the producer returns Pending
\* without depositing.
StmtYield(s) ==
  /\ Running(s)
  /\ gen[s].st = "run"
  /\ nyield[s] < MaxYields
  /\ nyield' = Inc(nyield, s)
  /\ "yield" \in allow[s]
  /\ gen' = [gen EXCEPT ![s] = WithSt(@, "yield")]
  /\ stack' = [stack EXCEPT ![Len(stack)].phase = "pending"]
  /\ resumed' = Inc(resumed, s)
  /\ UNCHANGED <<nullpolls, STORE, kind, done, dropped, detached, unwinding, panics, sent, ret, out, entered, allow>>

\* What the closure may return.
RetOk      == <<"RetOk", 0, 0>>
RetErr(e)  == <<"RetErr", 0, e>>
Returns(s) == IF kind[s] = "plain" THEN {Unit} ELSE {RetOk} \cup {RetErr(e) : e \in Values}

\* A tail that drops the closure's failure.
TryTailDropsErr(s, r) == <<>>

\* A tail that sends the closure's result whatever it is.
TryTailSendsAny(s, r) == IF kind[s] = "try" THEN <<Err(s, r[3])>> ELSE <<>>

\* The tail of the async block the constructors wrap around the closure:
\* the sends it awaits after the closure returned r.
\* make_stream: none.  make_try_stream: Err(err) when the result is Err(err).
TryTail(s, r) == IF kind[s] = "try" /\ r[1] = "RetErr" THEN <<Err(s, r[3])>> ELSE <<>>

\* The closure returns r; the async block runs its tail and completes.
StmtReturn(s, r) ==
  /\ Running(s)
  /\ gen[s].st = "run"
  /\ r \in Returns(s)
  /\ ret[s] = None
  /\ ret' = [ret EXCEPT ![s] = r]
  /\ IF TryTail(s, r) # <<>>
       THEN AwaitStep(s, TryTail(s, r), TRUE)
       ELSE /\ gen' = [gen EXCEPT ![s] = [st |-> "finished", futs |-> <<>>, final |-> FALSE]]
            /\ stack' = [stack EXCEPT ![Len(stack)].phase = "ready"]
            /\ resumed' = Inc(resumed, s)
            /\ unwinding' = unwinding
  /\ UNCHANGED <<nullpolls, STORE, kind, done, dropped, detached, panics, sent, out, entered, nyield, allow>>

\* let mut f = tx.send(v); poll f once; drop f  (a send that is not awaited)
StmtFire(s, v) ==
  /\ Running(s)
  /\ gen[s].st = "run"
  /\ Len(sent[s]) < MaxSends
  /\ sent' = Log(sent, s, Wrap(s, v))
  /\ "fire" \in allow[s]
  /\ LET r == SendPoll(Wrap(s, v), STORE, stack) IN
       IF r.res = "panic"
         THEN /\ gen' = [gen EXCEPT ![s] = WithSt(@, "panicked")]
              /\ unwinding' = TRUE
              /\ resumed' = Inc(resumed, s)
              /\ stack' = stack
         ELSE /\ stack' = r.stk
              /\ UNCHANGED <<gen, unwinding, resumed>>
  /\ UNCHANGED <<nullpolls, STORE, kind, done, dropped, detached, panics, ret, out, entered, nyield, allow>>

\* join!(tx.send(v), tx.send(w)) : two sends awaited together
StmtJoin(s, v, w) ==
  /\ Running(s)
  /\ gen[s].st = "run"
  /\ Len(sent[s]) + 2 <= MaxSends
  /\ sent' = [sent EXCEPT ![s] = @ \o <<Wrap(s, v), Wrap(s, w)>>]
  /\ "join" \in allow[s]
  /\ AwaitStep(s, <<Wrap(s, v), Wrap(s, w)>>, FALSE)
  /\ UNCHANGED <<nullpolls, STORE, kind, done, dropped, detached, panics, ret, out, entered, nyield, allow>>

\* The producer creates a send and moves it out of the computation
\* (the future returned by send does not borrow the Sender).
StmtDetach(s, v) ==
  /\ Running(s)
  /\ gen[s].st = "run"
  /\ Len(sent[s]) < MaxSends
  /\ sent' = Log(sent, s, Wrap(s, v))
  /\ "detach" \in allow[s]
  /\ detached' = detached \cup {Wrap(s, v)}
  /\ UNCHANGED <<nullpolls, STORE, stack, kind, gen, done, dropped, unwinding, panics,
                 ret, out, resumed, entered, nyield, allow>>

\* The producer panics, or a generator that completed or panicked is polled again.
GenPanic(s) ==
  /\ Running(s)
  /\ gen[s].st \in {"run", "panicked", "finished"}
  /\ gen[s].st = "run" => panics < MaxPanics
  /\ gen' = [gen EXCEPT ![s] = WithSt(@, "panicked")]
  /\ unwinding' = TRUE
  /\ resumed' = Inc(resumed, s)
  /\ gen[s].st = "run" => "panic" \in allow[s]
  /\ UNCHANGED <<nullpolls, STORE, stack, kind, done, dropped, detached, panics, sent, ret, out, entered, nyield, allow>>

\* A detached send is polled by whatever code runs now: the top level, or the
\* producer being polled.
PollDetached(d) ==
  /\ d \in detached
  /\ \/ stack = <<>> /\ ~unwinding /\ nullpolls < MaxPanics
     \/ stack # <<>> /\ Running(Top.s) /\ gen[Top.s].st = "run"
  /\ nullpolls' = IF STORE = NULL THEN nullpolls + 1 ELSE nullpolls
  /\ LET r == SendPoll(d, STORE, stack) IN
       IF r.res = "panic"
         THEN IF stack = <<>>
                THEN /\ panics' = panics + 1
                     /\ UNCHANGED <<stack, gen, unwinding, resumed, detached>>
                ELSE /\ gen' = [gen EXCEPT ![Top.s] = WithSt(@, "panicked")]
                     /\ unwinding' = TRUE
                     /\ resumed' = Inc(resumed, Top.s)
                     /\ UNCHANGED <<stack, panics, detached>>
         ELSE /\ stack' = r.stk
              /\ detached' = IF r.value = None THEN detached \ {d} ELSE detached
              /\ UNCHANGED <<gen, unwinding, resumed, panics>>
  /\ UNCHANGED <<STORE, kind, done, dropped, sent, ret, out, entered, nyield, allow>>

\* ---- poll_next: after generator.poll returned ----
PullReturn(s) ==
  /\ stack # <<>>
  /\ ~unwinding
  /\ Top.s = s
  /\ Top.phase \in {"ready", "pending"}
  /\ LET f == Top
         r == PollResult(f)
         rest == Pop(stack)
     IN /\ STORE' = Restore(f)
        /\ done' = [done EXCEPT ![s] = IsReady(f.phase)]
        /\ out' = Log(out, s, r)
        /\ IF rest = <<>>
             THEN /\ stack' = rest
                  /\ UNCHANGED <<gen, resumed>>
             ELSE LET c == rest[Len(rest)].s IN
                  IF r = Pending
                    THEN /\ stack' = [rest EXCEPT ![Len(rest)].phase = "pending"]
                         /\ resumed' = Inc(resumed, c)
                         /\ gen' = gen
                    ELSE /\ stack' = rest
                         /\ gen' = [gen EXCEPT ![c] = WithSt(@, "run")]
                         /\ resumed' = resumed
  /\ UNCHANGED <<nullpolls, kind, dropped, detached, unwinding, panics, sent, ret, entered, nyield, allow>>

\* A panic unwinds one poll_next frame: its Enter guard is dropped; the
\* caller's generator, if any, is unwound in turn.
Unwind ==
  /\ unwinding
  /\ stack # <<>>
  /\ LET f == Top
         rest == Pop(stack)
     IN /\ STORE' = Restore(f)
        /\ stack' = rest
        /\ out' = Log(out, f.s, Panicked)
        /\ IF rest = <<>>
             THEN /\ unwinding' = FALSE
                  /\ panics' = panics + 1
                  /\ UNCHANGED <<gen, resumed>>
             ELSE LET c == rest[Len(rest)].s IN
                  /\ gen' = [gen EXCEPT ![c] = WithSt(@, "panicked")]
                  /\ resumed' = Inc(resumed, c)
                  /\ UNCHANGED <<unwinding, panics>>
  /\ UNCHANGED <<nullpolls, kind, done, dropped, detached, sent, ret, entered, nyield, allow>>

\* A drop that first resumes the producer past the send it is suspended at.
DroppedGenResumed(g) == IF g.st = "await" THEN [g EXCEPT !.st = "run", !.futs = <<>>] ELSE g

\* The generator of a dropped AsyncStream: dropped where it is suspended.
DroppedGen(g) == g

\* The consumer drops stream 1, and with it the producer and the stream 2 the
\* producer owns.
Drop ==
  /\ stack = <<>>
  /\ ~unwinding
  /\ ~dropped[1]
  /\ dropped' = [s \in Streams |-> TRUE]
  /\ gen' = [s \in Streams |-> DroppedGen(gen[s])]
  /\ UNCHANGED <<STORE, stack, kind, done, detached, unwinding, panics, hist>>

Next ==
  \/ \E c \in {0, 1}, s \in Streams : PullTerminated(c, s)
  \/ \E c \in {0, 1}, s \in Streams : PullEnter(c, s)
  \/ \E s \in Streams : ResumeAwait(s)
  \/ \E s \in Streams : ResumeYield(s)
  \/ \E s \in Streams, v \in Values : StmtSend(s, v)
  \/ \E s \in Streams : StmtYield(s)
  \/ \E s \in Streams : \E r \in Returns(s) : StmtReturn(s, r)
  \/ \E s \in Streams, v \in Values : StmtFire(s, v)
  \/ \E s \in Streams, v, w \in Values : StmtJoin(s, v, w)
  \/ \E s \in Streams, v \in Values : StmtDetach(s, v)
  \/ \E s \in Streams : GenPanic(s)
  \/ \E d \in detached : PollDetached(d)
  \/ \E s \in Streams : PullReturn(s)
  \/ Unwind
  \/ Drop

Spec == Init /\ [][Next]_vars

\* ---- one stream whose consumer keeps pulling ----
\* The producer is written with awaited sends and other suspension points
\* only; the consumer never drops the stream.
InitLive ==
  /\ Init
  /\ allow[2] = {}
  /\ allow[1] \in {{"send"}, {"send", "yield"}}

NextLive ==
  \/ PullTerminated(0, 1)
  \/ PullEnter(0, 1)
  \/ ResumeAwait(1)
  \/ ResumeYield(1)
  \/ \E v \in Values : StmtSend(1, v)
  \/ StmtYield(1)
  \/ \E r \in Returns(1) : StmtReturn(1, r)
  \/ PullReturn(1)

\* A call of poll_next runs until it returns, and the consumer calls it again.
SpecLive == InitLive /\ [][NextLive]_vars /\ WF_vars(NextLive)

TypeOK ==
  /\ STORE \in 0..Len(stack)
  /\ Len(stack) <= 2
  /\ \A s \in Streams : Len(out[s]) <= PullCap /\ Len(sent[s]) <= MaxSends

\* ---- properties ----
InProgress(s) == \E i \in 1..Len(stack) : stack[i].s = s
\* The value sitting in the slot of the pull of s in progress, not yet returned.
InFlight(s) ==
  IF \E i \in 1..Len(stack) : stack[i].s = s /\ stack[i].dst # None
    THEN <<(CHOOSE d \in {stack[i].dst : i \in {j \in 1..Len(stack) : stack[j].s = s}} : TRUE)>>
    ELSE <<>>
Ends(n)      == [i \in 1..n |-> End]
Items(seq)   == SelectSeq(seq, IsItem)
Count(seq, x) == Cardinality({i \in 1..Len(seq) : seq[i] = x})
\* o is `items` followed by one or more end-of-sequence results.
ThenEnds(o, items) ==
  /\ Len(o) > Len(items)
  /\ o = items \o Ends(Len(o) - Len(items))
NoDetach == \A s \in Streams : "detach" \notin allow[s]
\* The closure of s is written with awaited sends only.
OnlySends(s) == allow[s] = {"send"}

\* C1: a make_stream producer that performs N awaited sends and completes is
\* pulled as its N values in send order, one per pull, then end-of-sequence on
\* every later pull; while it has not completed, every pull made so far yielded
\* the next value sent.
C1_SendsThenEnd ==
  \A s \in Streams :
    (OnlySends(s) /\ kind[s] = "plain") =>
      IF done[s] THEN ThenEnds(out[s], sent[s])
                 ELSE out[s] \o InFlight(s) = sent[s]

C1_Witness ==
  \E s \in Streams :
    /\ OnlySends(s) /\ kind[s] = "plain" /\ done[s]
    /\ Len(sent[s]) = 2 /\ sent[s][1] # sent[s][2]
    /\ out[s] = sent[s] \o <<End, End>>

\* C2: a make_try_stream producer that performs N awaited sends and returns
\* Err(e) is pulled as its N Ok items in order, then Err(e) exactly once, then
\* end-of-sequence on every later pull.
C2_FailureIsLastItem ==
  \A s \in Streams :
    (OnlySends(s) /\ kind[s] = "try" /\ ret[s][1] = "RetErr") =>
      LET full == sent[s] \o <<Err(s, ret[s][3])>> IN
        IF done[s] THEN ThenEnds(out[s], full)
                   ELSE out[s] \o InFlight(s) = full

C2_Witness ==
  \E s \in Streams :
    /\ OnlySends(s) /\ kind[s] = "try" /\ done[s]
    /\ ret[s] = RetErr(2)
    /\ out[s] = <<Ok(s, 1), Ok(s, 2), Err(s, 2), End>>

\* C3: a make_try_stream producer that performs N awaited sends and returns
\* Ok(()) is pulled as exactly its N Ok items and then end-of-sequence; no Err
\* item is yielded and the async block awaits no synthetic send.
C3_SuccessHasNoFailureItem ==
  \A s \in Streams :
    (OnlySends(s) /\ kind[s] = "try" /\ ret[s] = RetOk) =>
      /\ IF done[s] THEN ThenEnds(out[s], sent[s])
                    ELSE out[s] \o InFlight(s) = sent[s]
      /\ \A i \in 1..Len(out[s]) : out[s][i][1] # "Err"
      /\ ~gen[s].final
      /\ gen[s].st = "finished"

C3_Witness ==
  \E s \in Streams :
    /\ OnlySends(s) /\ kind[s] = "try" /\ done[s]
    /\ ret[s] = RetOk
    /\ out[s] = <<Ok(s, 2), Ok(s, 1), End, End>>

\* C4: once done[s] is set, a step leaves the generator of s where it is, polls
\* it no more, installs no slot for s, keeps the flag set, and adds to the
\* results of s nothing but end-of-sequence.
C4_TerminatedIsIdempotent ==
  [][\A s \in Streams :
       done[s] =>
         /\ done'[s]
         /\ gen'[s] = gen[s]
         /\ resumed'[s] = resumed[s]
         /\ entered'[s] = entered[s]
         /\ \A i \in 1..Len(stack') : stack'[i].s # s
         /\ out'[s] = out[s] \/ out'[s] = Append(out[s], End)]_vars

C4_Witness ==
  \E s \in Streams :
    /\ done[s]
    /\ Len(out[s]) >= 3
    /\ out[s][Len(out[s])] = End
    /\ out[s][Len(out[s]) - 1] = End
    /\ resumed[s] = Len(out[s]) - 1

\* C5: for a producer written with awaited sends and non-send suspension
\* points, the items pulled so far (with the one in the slot of a pull in
\* progress) are exactly the values sent so far, in order; the pulls that
\* returned Pending are exactly the non-send suspensions, and they yield nothing.
Suspending(s) == allow[s] = {"send", "yield"}
PendingNow(s) ==
  IF \E i \in 1..Len(stack) :
       stack[i].s = s /\ stack[i].phase = "pending" /\ stack[i].dst = None
    THEN 1 ELSE 0
C5_NoSkipNoDuplicate ==
  \A s \in Streams :
    Suspending(s) =>
      /\ Items(out[s]) \o InFlight(s) = sent[s] \o TryTail(s, ret[s])
      /\ Count(out[s], Pending) + PendingNow(s) = nyield[s]
      /\ done[s] => out[s][Len(out[s])] = End

C5_Witness ==
  \E s \in Streams :
    /\ Suspending(s) /\ done[s]
    /\ Len(sent[s]) = 2
    /\ out[s] = <<sent[s][1], Pending, sent[s][2], End>>

\* C6: every pull made while active leaves the thread-local pointer as it
\* found it, whether generator.poll returned Ready, returned Pending or
\* unwound; with no pull in progress the pointer is null.
C6_ScopedRestore ==
  [][/\ Len(stack') < Len(stack) => STORE' = Top.before
     /\ stack' = <<>> => STORE' = NULL]_vars

\* A panic raised in the inner producer has unwound both pulls.
C6_Witness ==
  /\ stack = <<>>
  /\ STORE = NULL
  /\ Count(out[2], Panicked) = 1
  /\ Count(out[1], Panicked) = 1
  /\ \E i \in 1..Len(out[1]) : IsItem(out[1][i])
  /\ \E i \in 1..Len(out[2]) : out[2][i] = Pending \/ IsItem(out[2][i])

C8_SendWithoutSlotPanics ==
  [][nullpolls' # nullpolls =>
       /\ panics' = panics + 1
       /\ detached' = detached
       /\ stack' = stack
       /\ gen' = gen
       /\ out' = out
       /\ done' = done]_vars

C8_Witness ==
  /\ nullpolls = 1
  /\ panics = 1
  /\ detached # {}
  /\ stack = <<>>

\* C9: once the adapter is dropped its producer is never resumed and the send
\* it is suspended at never completes; with no pull in progress the generator
\* has been polled exactly once per pull made while active; and for a producer
\* of awaited sends dropped before its closure returned, the sends it started
\* are as many as the items pulled.
C9_DropCancels ==
  [][\A s \in Streams :
       /\ dropped'[s] =>
            /\ gen'[s] = gen[s]
            /\ resumed'[s] = resumed[s]
            /\ sent'[s] = sent[s]
            /\ out'[s] = out[s]
            /\ \A i \in 1..Len(stack') : stack'[i].s # s
       /\ stack' = <<>> => resumed'[s] = entered'[s]
       /\ (dropped'[s] /\ OnlySends(s) /\ ret'[s] = None) =>
            /\ Len(sent'[s]) = Len(Items(out'[s]))
            /\ resumed'[s] = Len(Items(out'[s]))]_vars

\* Stream 1 was dropped after two items, its producer suspended at the second send.
C9_Witness ==
  /\ dropped[1]
  /\ OnlySends(1)
  /\ ~done[1]
  /\ gen[1].st = "await"
  /\ Len(Items(out[1])) = 2
  /\ Len(sent[1]) = 2
  /\ resumed[1] = 2

\* C10: done[s] (is_terminated) is set exactly when the generator of s ran to
\* completion in a pull that has returned; it is never reset; size_hint is
\* (0, None) while it is unset and (0, Some(0)) once it is set.
Completed(s) == gen[s].st = "finished" /\ ~InProgress(s)
C10_Statement(s) ==
  /\ IsTerminated(s) <=> Completed(s)
  /\ SizeHint(s) = IF Completed(s) THEN <<0, 0>> ELSE <<0, -1>>
C10_DoneIffCompleted ==
  [][\A s \in Streams :
       /\ C10_Statement(s)
       /\ C10_Statement(s)'
       /\ done[s] => done'[s]]_vars

C10_Witness ==
  /\ done[2] /\ ~done[1]
  /\ gen[2].st = "finished"
  /\ SizeHint(2) = <<0, 0>>
  /\ SizeHint(1) = <<0, -1>>
  /\ InProgress(1)

\* The result the last pull on s returned.
Last(o) == o[Len(o)]
Grew(s) == Len(out'[s]) > Len(out[s])

\* C11 as stated: no pull ever returns Pending.
C11_NeverPending ==
  \A s \in Streams : Count(out[s], Pending) = 0

\* C11 amended: a pull returns Pending exactly when generator.poll returned
\* Pending and left the slot empty (the producer suspended elsewhere than at a
\* depositing send); a producer whose only suspension points are its awaited
\* sends never makes a pull return Pending.
C11_PendingOnlyAtNonSendSuspension ==
  [][\A s \in Streams :
       /\ OnlySends(s) => Count(out'[s], Pending) = 0
       /\ Grew(s) =>
            (Last(out'[s]) = Pending <=>
               /\ stack # <<>>
               /\ ~unwinding
               /\ Top.s = s
               /\ Top.dst = None
               /\ Top.phase = "pending")]_vars

C11_Witness ==
  \E s \in Streams :
    /\ Suspending(s)
    /\ ~done[s]
    /\ Len(out[s]) = 2
    /\ IsItem(out[s][1])
    /\ out[s][2] = Pending
    /\ gen[s].st = "yield"

\* The step is the return of the pull of s in progress.
Returns1(s) == stack # <<>> /\ ~unwinding /\ Top.s = s /\ Grew(s)

\* C12: a pull returns end-of-sequence only when the generator has run to
\* completion and the slot of that pull (if it installed one) is empty; a pull
\* whose generator.poll returned Pending with the slot empty returns neither an
\* item nor end-of-sequence and leaves the adapter active.
C12_EndOnlyWhenCompleted ==
  [][\A s \in Streams :
       /\ (Grew(s) /\ Last(out'[s]) = End) =>
            /\ done'[s]
            /\ gen'[s].st = "finished"
            /\ Returns1(s) => Top.dst = None /\ Top.phase = "ready"
       /\ (Returns1(s) /\ Top.dst = None /\ Top.phase = "pending") =>
            /\ Last(out'[s]) = Pending
            /\ ~done'[s]
            /\ gen'[s].st # "finished"]_vars

C12_Witness ==
  \E s \in Streams :
    /\ done[s]
    /\ Len(out[s]) = 3
    /\ out[s][1] = Pending
    /\ IsItem(out[s][2])
    /\ out[s][3] = End

\* C13: a send of stream A resumed while the installed slot belongs to a pull
\* of another stream B is not deposited there: every value held in a slot or
\* yielded by a stream was sent through that stream's own Sender.
C13_ForeignSendNeverDeposits ==
  /\ \A i \in 1..Len(stack) :
       stack[i].dst # None => stack[i].dst[2] = stack[i].s
  /\ \A s \in Streams : \A i \in 1..Len(out[s]) :
       IsItem(out[s][i]) => out[s][i][2] = s

\* The producer of s awaits every send it creates, one at a time, and no send
\* is moved out of a producer.
AwaitsItsSends(s) == NoDetach /\ "fire" \notin allow[s] /\ "join" \notin allow[s]

\* The slot of a pull of s holds a value only while the producer is suspended
\* at the spent send that put it there, and the producer's statements run only
\* when every value it has sent so far has been pulled.
Rendezvous(s) ==
  /\ \A i \in 1..Len(stack) :
       (stack[i].s = s /\ stack[i].dst # None) =>
         /\ stack[i].phase = "pending"
         /\ gen[s].st = "await"
         /\ gen[s].futs = <<None>>
  /\ gen[s].st = "run" => Items(out[s]) = sent[s]

JoinsOnly(s) == allow[s] = {"send", "join"}
IsArmed(value) == value # None
\* The sends the producer of s is suspended at that still hold their value.
Armed(s) == SelectSeq(gen[s].futs, IsArmed)

\* C15: an armed send resumed while the installed slot holds a value returns
\* Pending, keeps its value and leaves the slot as it is; and for a producer
\* of awaited and joined sends the items pulled, then the value in the slot of
\* the pull in progress, then the values of the sends still armed, are the
\* values sent, in order: the first value of a joined pair goes to the pull
\* that resumed the pair, the second to a later pull, none lost or overwritten.
C15_OccupiedSlotKeepsBoth ==
  /\ (stack # <<>> /\ Top.dst # None) =>
       \A s \in Streams : \A v \in Values :
         SendPoll(Val(s, v), STORE, stack) =
           [value |-> Val(s, v), stk |-> stack, res |-> "pending"]
  /\ \A s \in Streams :
       JoinsOnly(s) =>
         Items(out[s]) \o InFlight(s) \o Armed(s) = sent[s] \o TryTail(s, ret[s])

\* Two pulls have yielded the two values of a joined pair, in order, and the
\* producer is still suspended at the join.
C15_Witness ==
  \E s \in Streams :
    /\ JoinsOnly(s)
    /\ gen[s].st = "await"
    /\ gen[s].futs = <<None, None>>
    /\ Len(sent[s]) = 2
    /\ sent[s][1] # sent[s][2]
    /\ out[s] = sent[s]
    /\ ~InProgress(s)

\* The values that have reached a slot of s, and the sends created for s.
Deposited(s) == Len(Items(out[s])) + Len(InFlight(s))
Created(s)   == Len(sent[s] \o TryTail(s, ret[s]))

\* C16: a send polled while armed with the installed slot empty puts its value
\* in the slot, becomes spent and returns Pending; a send polled while spent
\* returns Ready and leaves the slots alone, whether or not one is installed; a
\* spent send a producer is suspended at never holds a value again; and the
\* values that reached a slot are never more than the sends created.
C16_SendStateMachine ==
  [][/\ (stack # <<>> /\ Top.dst = None) =>
          \A s \in Streams : \A v \in Values :
            SendPoll(Val(s, v), STORE, stack) =
              [value |-> None,
               stk   |-> [stack EXCEPT ![STORE].dst = Val(s, v)],
               res   |-> "pending"]
     /\ SendPoll(None, STORE, stack) = [value |-> None, stk |-> stack, res |-> "ready"]
     /\ \A s \in Streams :
          (gen[s].st = "await" /\ gen'[s].st = "await") =>
            /\ Len(gen'[s].futs) = Len(gen[s].futs)
            /\ \A i \in 1..Len(gen[s].futs) :
                 gen[s].futs[i] = None => gen'[s].futs[i] = None
     /\ Deposited(1)' + Deposited(2)' <= Created(1)' + Created(2)']_vars

\* The first send of s deposited, was pulled, and completed when the producer
\* was resumed by the second pull, which is in progress with its slot empty.
C16_Witness ==
  \E s \in Streams :
    /\ OnlySends(s)
    /\ gen[s].st = "run"
    /\ Len(sent[s]) = 1
    /\ out[s] = sent[s]
    /\ InProgress(s)
    /\ InFlight(s) = <<>>
    /\ entered[s] = 2

\* C17: a pull that returns with its slot filled and its generator completed
\* yields the value in the slot and sets the done flag; the next pull of that
\* stream yields end-of-sequence and leaves the generator alone.
C17_SlotBeforeCompletion ==
  [][\A s \in Streams :
       /\ (Returns1(s) /\ Top.dst # None /\ Top.phase = "ready") =>
            /\ out'[s] = Append(out[s], Top.dst)
            /\ done'[s]
            /\ gen'[s].st = "finished"
       /\ (done[s] /\ Grew(s) /\ IsItem(Last(out[s]))) =>
            /\ out'[s] = Append(out[s], End)
            /\ resumed'[s] = resumed[s]
            /\ gen'[s] = gen[s]]_vars

\* One pull resumed the producer, which polled a send once and completed: the
\* pull yielded the value; the second pull yielded end-of-sequence without
\* polling the generator.
C17_Witness ==
  \E s \in Streams :
    /\ done[s]
    /\ Len(sent[s]) = 1
    /\ out[s] = <<sent[s][1], End>>
    /\ entered[s] = 1
    /\ resumed[s] = 1

\* C18: when the consumer keeps pulling a producer that sends and suspends
\* finitely often before it completes, the adapter becomes terminated and
\* end-of-sequence is yielded, and it stays so.
C18_EventuallyEnds == <>[](done[1] /\ Last(out[1]) = End)

\* A try stream was pulled to its end: two items, one Pending, the failure item,
\* then end-of-sequence.
C18_Witness ==
  /\ done[1]
  /\ kind[1] = "try"
  /\ Len(sent[1]) = MaxSends
  /\ nyield[1] = MaxYields
  /\ ret[1][1] = "RetErr"
  /\ Len(out[1]) = MaxSends + MaxYields + 2
  /\ Last(out[1]) = End
====
